---- MODULE Spec2Model ----
(***************************************************************************)
(* ArtMentorAI: the critique pipeline of endpoints/analysis.py             *)
(* (critique_artwork, vector_db_health), services/agent_service.py         *)
(* (AgentService), services/vector_service.py (VectorService) and the      *)
(* startup of cli.py (main), as a state machine.                           *)
(*                                                                         *)
(* Text values are records [py, id, len]: the identity of the text and its     *)
(* length in characters (the only property of a text the code measures).   *)
(* File names are sequences of one-character strings, so that              *)
(* Path(filename).suffix.lower() is computed and not assumed.              *)
(***************************************************************************)
EXTENDS Integers, Sequences, FiniteSets, TLC

VARIABLES
    agent_service,  \* which analyze_image the router holds (see AgentKinds)
    str_hash,       \* this process's hash() of each file name (PYTHONHASHSEED)
    collection,     \* the Qdrant collection art_portfolio: point id -> point
    clock,          \* datetime.now(): a logical clock
    req,            \* the critique_artwork invocations, by request slot
    last_saved,     \* history: file name -> payload of its latest successful save
    point_ids,      \* history: file name -> the point ids save_critique made for it
    collections,    \* the collections of the Qdrant database: name -> parameters
    proc,           \* the service processes: how far main() of cli.py has come
    last_call       \* the latest call of a VectorService method or of the
                    \* vector-db-health endpoint, and what came of it

vars == <<agent_service, str_hash, collection, clock, req, last_saved,
          point_ids, collections, proc, last_call>>

\* Python's None where a str is expected, where an object is expected, and the
\* falsy file name (None or '')
None == "None"
PyNone == [py |-> "NoneType"]
NoFilename == <<>>

----------------------------------------------------------------------------
(* Bounds of the model *)

\* ArtCritique objects created in one run (each takes one clock tick)
MaxClock == 2

\* The invocations of critique_artwork are taken one at a time: the handler
\* shares no state with another invocation but the collection, and each of its
\* steps between two awaits is atomic on the event loop.
Reqs == {"r1"}

----------------------------------------------------------------------------
(* config/upload_config.py: UploadConfig defaults *)

max_file_size_mb == 10

ExtJpg  == <<".", "j", "p", "g">>
ExtJpeg == <<".", "j", "p", "e", "g">>
ExtPng  == <<".", "p", "n", "g">>
ExtGif  == <<".", "g", "i", "f">>
ExtWebp == <<".", "w", "e", "b", "p">>
ExtBmp  == <<".", "b", "m", "p">>

allowed_extensions == {ExtJpg, ExtJpeg, ExtPng, ExtGif, ExtWebp, ExtBmp}

allowed_mime_types ==
    {"image/jpeg", "image/png", "image/gif", "image/webp", "image/bmp"}

----------------------------------------------------------------------------
(* Inputs of a request *)

NameLowerPng == <<"a", ".", "p", "n", "g">>
NameUpperPng == <<"a", ".", "P", "N", "G">>
NameTxt      == <<"a", ".", "t", "x", "t">>
NameNoExt    == <<"p", "n", "g">>
NameDotFile  == <<".", "p", "n", "g">>
NameUnknown  == <<"u", "n", "k", "n", "o", "w", "n">>

\* file.filename: absent or a name
Filenames == {NoFilename, NameLowerPng, NameUpperPng, NameTxt, NameNoExt, NameDotFile}

\* file.content_type: absent (None) or a declared type
ContentTypes == {None, "image/png", "text/plain"}

\* user_comments: absent or a text
UserComments == {None, "more contrast?"}

\* the length of an upload's content: empty, smallest, at and over the limit
ContentLengths ==
    {0, 1, max_file_size_mb * 1024 * 1024, max_file_size_mb * 1024 * 1024 + 1}

\* the file part of the form: absent (file is None) or an UploadFile, whose
\* content is modelled by its length in bytes
UploadFile(filename, content_type, length) ==
    [py |-> "UploadFile", filename |-> filename, content_type |-> content_type,
     length |-> length]

Files ==
    {PyNone} \cup
    {UploadFile(f, c, n) : f \in Filenames, c \in ContentTypes, n \in ContentLengths}


----------------------------------------------------------------------------
(* models/responses/analysis_response.py: AnalysisResponse *)

summary_min_length == 10
summary_max_length == 500
score_ge == 1
score_le == 10
technical_errors_max_items == 10
constructive_advice_min_length == 20
constructive_advice_max_length == 500

\* a Python str; py is the runtime type of the value
Text(id, len) == [py |-> "str", id |-> id, len |-> len]

Errors(n) == [i \in 1..n |-> Text("error", 12)]

Critique(summary, score, errors, advice) ==
    [summary |-> summary, score |-> score,
     technical_errors |-> errors, constructive_advice |-> advice]

\* Field(...) constraints of the four fields, as pydantic validates them
ValidAnalysisResponse(d) ==
    /\ d.summary.len >= summary_min_length
    /\ d.summary.len <= summary_max_length
    /\ d.score >= score_ge
    /\ d.score <= score_le
    /\ Len(d.technical_errors) <= technical_errors_max_items
    /\ d.constructive_advice.len >= constructive_advice_min_length
    /\ d.constructive_advice.len <= constructive_advice_max_length

\* What the hosted model can answer to one agent.run(): a failed call, or data
GoodLow  == Critique(Text("s1", 10), 1, Errors(0), Text("a1", 20))
GoodHigh == Critique(Text("s2", 500), 10, Errors(10), Text("a2", 500))

ModelData ==
    {GoodLow, GoodHigh,
     Critique(Text("s1", 10), 0, Errors(0), Text("a1", 20)),
     Critique(Text("s1", 10), 11, Errors(1), Text("a1", 20)),
     Critique(Text("s1", 10), 5, Errors(11), Text("a1", 20)),
     Critique(Text("s3", 9), 5, Errors(0), Text("a1", 20)),
     Critique(Text("s1", 10), 5, Errors(0), Text("a3", 501))}

ModelReplies ==
    {[kind |-> "error"]} \cup {[kind |-> "data", data |-> d] : d \in ModelData}

----------------------------------------------------------------------------
(* endpoints/analysis.py: _validate_image_file, _validate_file_size *)

Max(S) == CHOOSE x \in S : \A y \in S : y <= x

\* str.lower() on the characters file names are made of
LowerChar(c) ==
    CASE c = "P" -> "p"
      [] c = "N" -> "n"
      [] c = "G" -> "g"
      [] OTHER -> c

Lower(s) == [i \in 1..Len(s) |-> LowerChar(s[i])]

\* pathlib: PurePath.suffix of a name without directory part: the text from the
\* last dot on, unless that dot is the first or the last character
Suffix(name) ==
    LET dots == {i \in 1..Len(name) : name[i] = "."}
    IN  IF dots = {} THEN <<>>
        ELSE IF Max(dots) > 1 /\ Max(dots) < Len(name)
             THEN SubSeq(name, Max(dots), Len(name))
             ELSE <<>>

HttpError(code, detail, names) ==
    [outcome |-> "http_exception", status_code |-> code,
     detail |-> detail, names |-> names, body |-> PyNone]

NoError == [outcome |-> "ok"]

FileExtensionCaseBug(filename) == Suffix(filename)
FileExtension(filename) == Lower(Suffix(filename))

ActualMimeNoDefault(content_type) == content_type
ActualMime(content_type) ==
    IF content_type \in {None, ""} THEN "image/jpeg" ELSE content_type

\* returns NoError (the caller takes ActualMime) or the HTTPException raised
ValidateImageFileMimeFirst(filename, content_type) ==
    IF ActualMime(content_type) \notin allowed_mime_types
    THEN HttpError(400, "MIME type not allowed", allowed_mime_types)
    ELSE IF FileExtension(filename) \notin allowed_extensions
         THEN HttpError(400, "Extension not allowed", allowed_extensions)
         ELSE NoError

ValidateImageFile(filename, content_type) ==
    IF FileExtension(filename) \notin allowed_extensions
    THEN HttpError(400, "Extension not allowed", allowed_extensions)
    ELSE IF ActualMime(content_type) \notin allowed_mime_types
         THEN HttpError(400, "MIME type not allowed", allowed_mime_types)
         ELSE NoError

ValidateFileSizeOffByOne(length, max_mb) ==
    IF length >= max_mb * 1024 * 1024
    THEN HttpError(413, "File too large", {max_mb})
    ELSE IF length = 0
         THEN HttpError(400, "File is empty", {})
         ELSE NoError

ValidateFileSize(length, max_mb) ==
    IF length > max_mb * 1024 * 1024
    THEN HttpError(413, "File too large", {max_mb})
    ELSE IF length = 0
         THEN HttpError(400, "File is empty", {})
         ELSE NoError


----------------------------------------------------------------------------
(* services/agent_service.py: AgentService.analyze_image *)

\* The router holds AgentService(config).  "AgentService" is that class as it
\* is in services/agent_service.py; "Generator" is the Critique Generator of
\* the specification, analyze(imageBytes, mimeType, optionalUserComment),
\* which differs from it in taking and sending the user's comment.
AgentKinds == {"AgentService", "Generator"}

\* the parameters of analyze_image after self
AnalyzeImageParams == {"image_bytes", "mime_type"}

GeneratorParams == {"image_bytes", "mime_type", "user_text"}

Params(agent) ==
    IF agent = "AgentService" THEN AnalyzeImageParams ELSE GeneratorParams

\* the keywords critique_artwork passes in agent_service.analyze_image(...)
CallKeywords == {"image_bytes", "mime_type", "user_text"}

\* Python binds keyword arguments before the body runs: a keyword that is no
\* parameter raises TypeError at the call
BindsCall(agent) == CallKeywords \subseteq Params(agent)

\* the user content of agent.run([prompt, image_content])
AgentServiceSent(image_bytes, mime_type) ==
    [prompt |-> "analyze this artwork",
     image |-> [data |-> image_bytes, media_type |-> mime_type],
     comment |-> None]

\* the Critique Generator sends the user's comment too when there is one
GeneratorSent(image_bytes, mime_type, user_text) ==
    [prompt |-> "analyze this artwork",
     image |-> [data |-> image_bytes, media_type |-> mime_type],
     comment |-> IF user_text \in {None, ""} THEN None ELSE user_text]

Sent(agent, image_bytes, mime_type, user_text) ==
    IF agent = "AgentService"
    THEN AgentServiceSent(image_bytes, mime_type)
    ELSE GeneratorSent(image_bytes, mime_type, user_text)

Raised(exc, cause) == [exc |-> exc, cause |-> cause, value |-> PyNone]
Returned(value) == [exc |-> None, cause |-> None, value |-> value]

\* the body of analyze_image from the reply of agent.run on: a failed call or
\* data that is no AnalysisResponse raises, wrapped as ValueError; else the
\* validated fields are returned (model_dump)
AnalyzeImageFallback(reply) ==
    IF reply.kind = "error"
    THEN Returned(GoodLow)
    ELSE IF ~ValidAnalysisResponse(reply.data)
         THEN Raised("ValueError", "ValidationError")
         ELSE Returned(reply.data)

AnalyzeImageClamps(reply) ==
    IF reply.kind = "error"
    THEN Raised("ValueError", "model call")
    ELSE Returned([reply.data EXCEPT
                     !.score = IF @ < score_ge THEN score_ge
                               ELSE IF @ > score_le THEN score_le ELSE @])

AnalyzeImage(reply) ==
    IF reply.kind = "error"
    THEN Raised("ValueError", "model call")
    ELSE IF ~ValidAnalysisResponse(reply.data)
         THEN Raised("ValueError", "ValidationError")
         ELSE Returned(reply.data)

----------------------------------------------------------------------------
(* services/vector_service.py: ArtCritique, VectorService *)

EMBEDDING_SIZE == 384
DISTANCE_METRIC == "Cosine"

\* hash(filename) of a str is any integer, fixed within one process and drawn
\* anew by each process (hash randomisation); these values stand for it
HashValues == {-99999993, 100000008}

PointIdModulus == 100000000

PyList(items) == [py |-> "list", items |-> items]

\* ArtCritique.__init__ at time now
ArtCritique(summary, score, technical_errors, constructive_advice, now) ==
    [summary |-> summary, score |-> score, technical_errors |-> technical_errors,
     constructive_advice |-> constructive_advice, timestamp |-> now]

\* technical_errors that is no list, and a list with an entry that is no str
NotAList == [py |-> "tuple", items |-> <<Text("error", 12)>>]
ListWithInt == PyList(<<Text("error", 12), [py |-> "int", id |-> "3", len |-> 0]>>)

\* the arguments a caller of ArtCritique(...) can pass: the fields of a valid
\* AnalysisResponse, or technical_errors of another type
ArtCritiqueArgs ==
    {Critique(d.summary, d.score, PyList(d.technical_errors), d.constructive_advice) :
        d \in {GoodLow, GoodHigh}}
    \cup {Critique(GoodLow.summary, GoodLow.score, e, GoodLow.constructive_advice) :
            e \in {NotAList, ListWithInt}}

FromAnalysisResponse(response, now) ==
    ArtCritique(response.summary, response.score,
                PyList(response.technical_errors),
                response.constructive_advice, now)

\* f'{summary} {" ".join(technical_errors)}', as the sequence of its parts
GetTextForEmbedding(critique) ==
    <<critique.summary>> \o critique.technical_errors.items

\* FlagEmbedding.embed: a vector of EMBEDDING_SIZE numbers determined by the text
Embed(text) == [size |-> EMBEDDING_SIZE, of |-> text]

ValidateCritiqueListOnly(critique) ==
    IF critique.technical_errors.py # "list"
    THEN Raised("TypeError", "technical_errors must be a list")
    ELSE Returned(PyNone)

ValidateCritique(critique) ==
    IF critique.technical_errors.py # "list"
    THEN Raised("TypeError", "technical_errors must be a list")
    ELSE IF \E i \in DOMAIN critique.technical_errors.items :
                critique.technical_errors.items[i].py # "str"
         THEN Raised("TypeError", "technical_errors must contain only strings")
         ELSE Returned(PyNone)

\* point_id = hash(filename) % (10**8)
PointId(h, filename) == h[filename] % PointIdModulus

PointIds == {v % PointIdModulus : v \in HashValues}

Payload(critique, filename) ==
    [filename |-> filename, score |-> critique.score,
     summary |-> critique.summary, advice |-> critique.constructive_advice,
     timestamp |-> critique.timestamp]

PointStruct(id, vector, payload) ==
    [id |-> id, vector |-> vector, payload |-> payload]

\* QdrantClient.upsert of one point: the point with this id is replaced
Upsert(coll, point) == [coll EXCEPT ![point.id] = point]

\* what the database does with the upsert: performs it, or the client raises
DbOutcomes ==
    {"ok", "ResponseHandlingException", "UnexpectedResponse",
     "ConnectionError", "TimeoutError", "OSError"}

QdrantErrors == {"ResponseHandlingException", "UnexpectedResponse"}

\* save_critique without its last clause (except Exception -> RuntimeError):
\* an error of the connection leaves the call as it was raised
SaveCritiqueUnwrapped(coll, h, critique, filename, db) ==
    IF ValidateCritique(critique).exc # None
    THEN [coll |-> coll, res |-> ValidateCritique(critique), chained |-> None,
          log |-> {"exception: Validation error saving critique"},
          embedded |-> FALSE, point_id |-> {}, upserts |-> 0]
    ELSE IF db = "ok"
         THEN [coll |-> Upsert(coll,
                          PointStruct(PointId(h, filename),
                                      Embed(GetTextForEmbedding(critique)),
                                      Payload(critique, filename))),
               res |-> Returned(PointId(h, filename)), chained |-> None,
               log |-> {"info: Critique saved to Qdrant"},
               embedded |-> TRUE, point_id |-> {PointId(h, filename)},
               upserts |-> 1]
         ELSE IF db \in QdrantErrors
              THEN [coll |-> coll,
                    res |-> Raised("RuntimeError", "Failed to save critique to Qdrant"),
                    chained |-> db,
                    log |-> {"exception: Qdrant error saving critique"},
                    embedded |-> TRUE, point_id |-> {PointId(h, filename)},
                    upserts |-> 1]
              ELSE [coll |-> coll,
                    res |-> Raised(db, None),
                    chained |-> None,
                    log |-> {},
                    embedded |-> TRUE, point_id |-> {PointId(h, filename)},
                    upserts |-> 1]

\* save_critique on collection coll, with process hash h: the collection after
\* the call, what the call returns or raises, the exception that was raised
\* from (raise ... from e), what was logged, whether the embedding was
\* computed, the point id that was made and the upserts that were issued
SaveCritique(coll, h, critique, filename, db) ==
    IF ValidateCritique(critique).exc # None
    THEN [coll |-> coll, res |-> ValidateCritique(critique), chained |-> None,
          log |-> {"exception: Validation error saving critique"},
          embedded |-> FALSE, point_id |-> {}, upserts |-> 0]
    ELSE IF db = "ok"
         THEN [coll |-> Upsert(coll,
                          PointStruct(PointId(h, filename),
                                      Embed(GetTextForEmbedding(critique)),
                                      Payload(critique, filename))),
               res |-> Returned(PointId(h, filename)), chained |-> None,
               log |-> {"info: Critique saved to Qdrant"},
               embedded |-> TRUE, point_id |-> {PointId(h, filename)},
               upserts |-> 1]
         ELSE IF db \in QdrantErrors
              THEN [coll |-> coll,
                    res |-> Raised("RuntimeError", "Failed to save critique to Qdrant"),
                    chained |-> db,
                    log |-> {"exception: Qdrant error saving critique"},
                    embedded |-> TRUE, point_id |-> {PointId(h, filename)},
                    upserts |-> 1]
              ELSE [coll |-> coll,
                    res |-> Raised("RuntimeError", "Unexpected error in save_critique"),
                    chained |-> db,
                    log |-> {"exception: Unexpected error saving critique"},
                    embedded |-> TRUE, point_id |-> {PointId(h, filename)},
                    upserts |-> 1]

\* health_check, with get_collections as the probe: what it returns or raises
\* and what it logs
HealthCheckPropagates(db) ==
    IF db = "ok"
    THEN [res |-> Returned(TRUE), log |-> {}]
    ELSE [res |-> Raised(db, None), log |-> {}]

HealthCheck(db) ==
    IF db = "ok"
    THEN [res |-> Returned(TRUE), log |-> {}]
    ELSE IF db \in QdrantErrors
         THEN [res |-> Returned(FALSE), log |-> {"warning: Health check failed"}]
         ELSE [res |-> Raised(db, None), log |-> {}]

\* embedding_model.embed(text): FlagEmbedding.embed is a generator of one
\* vector per document (save_critique takes list(...)[0] of it)
EmbedCall(text) == [py |-> "generator", items |-> <<Embed(text)>>]

\* tolist is a method of a numpy array
HasToList(obj) == obj.py = "ndarray"

\* the similarity of a query vector and a stored vector: the parts of the
\* stored text that are the query text
Similarity(query_vector, vector) ==
    Cardinality({i \in DOMAIN vector.of : vector.of[i] = query_vector.of})

\* QdrantClient.search: the limit nearest points, nearest first
RECURSIVE Search(_, _, _)
Search(points, query_vector, limit) ==
    IF limit <= 0 \/ points = {}
    THEN <<>>
    ELSE LET best == CHOOSE x \in points : \A y \in points :
                        Similarity(query_vector, y.vector)
                            <= Similarity(query_vector, x.vector)
         IN  <<[score |-> Similarity(query_vector, best.vector),
                payload |-> best.payload]>>
             \o Search(points \ {best}, query_vector, limit - 1)

\* one entry of the list search_similar_critiques returns
FormatResult(result) ==
    [similarity_score |-> result.score,
     filename |-> result.payload.filename, score |-> result.payload.score,
     summary |-> result.payload.summary, advice |-> result.payload.advice,
     timestamp |-> result.payload.timestamp]

\* search_similar_critiques on collection coll
SearchSimilarCritiques(coll, query_text, limit, db) ==
    IF ~HasToList(EmbedCall(query_text))
    THEN \* embed(query_text).tolist(): AttributeError, no except clause for it
         [res |-> Raised("AttributeError", None), chained |-> None, log |-> {}]
    ELSE IF db = "ok"
         THEN LET found == Search({coll[id] : id \in {i \in DOMAIN coll : coll[i] # PyNone}},
                                 Embed(query_text), limit)
              IN  [res |-> Returned([i \in DOMAIN found |-> FormatResult(found[i])]),
                   chained |-> None,
                   log |-> {"debug: Found similar critiques for query"}]
         ELSE IF db \in QdrantErrors
              THEN [res |-> Raised("RuntimeError", "Failed to search critiques"),
                    chained |-> db,
                    log |-> {"exception: Error searching critiques"}]
              ELSE [res |-> Raised(db, None), chained |-> None, log |-> {}]

----------------------------------------------------------------------------
(* endpoints/analysis.py: critique_artwork *)

\* the exception classes an except clause naming class c catches
SubclassesOf(c) ==
    CASE c = "OSError" -> {"OSError", "ConnectionError", "TimeoutError"}
      [] c = "Exception" ->
            {"Exception", "OSError", "ConnectionError", "TimeoutError",
             "RuntimeError", "TypeError", "ValueError", "AttributeError"}
      [] OTHER -> {c}

Catches(classes, exc) == \E c \in classes : exc \in SubclassesOf(c)

\* except (ConnectionError, TimeoutError, OSError) around the storage step
StorageExceptClause == {"ConnectionError", "TimeoutError", "OSError"}

\* the file names that pass the extension check: the only ones hash() is taken of
StorableNames ==
    {f \in Filenames \ {NoFilename} : FileExtension(f) \in allowed_extensions}

\* the handler has not ended
NoResponse ==
    [outcome |-> "pending", status_code |-> 0, detail |-> None, names |-> {},
     body |-> PyNone]

IdleReq ==
    [pc |-> "idle", file |-> PyNone, user_comments |-> None, content |-> -1,
     mime_type |-> None, gen_calls |-> 0, gen_args |-> PyNone, sent |-> PyNone,
     gen_exc |-> None, reply |-> PyNone, result |-> PyNone, critique |-> PyNone,
     save_calls |-> 0, db |-> None, save_exc |-> None, log |-> {},
     response |-> NoResponse]

\* return result
Return(value) ==
    [outcome |-> "return", status_code |-> 200, detail |-> None,
     names |-> {}, body |-> value]

\* except Exception as e: logger.exception; raise HTTPException(500)
ServerError == HttpError(500, "Error analyzing image", {})

DoneRetriesGeneration(q, response, log) ==
    IF q.gen_exc = "ValueError"
    THEN [q EXCEPT !.pc = "reading", !.log = @ \cup log]
    ELSE [q EXCEPT !.pc = "done", !.response = response, !.log = @ \cup log]

Done(q, response, log) ==
    [q EXCEPT !.pc = "done", !.response = response, !.log = @ \cup log]

\* file.filename or 'unknown'
NameOrUnknown(filename) ==
    IF filename = NoFilename THEN NameUnknown ELSE filename

\* The handler from its entry to `await file.read()`.
Validate(r, file, user_comments) ==
    /\ req[r].pc \in {"idle", "done"}
    /\ LET q == [IdleReq EXCEPT !.file = file, !.user_comments = user_comments]
       IN  req' = [req EXCEPT ![r] =
                IF file = PyNone
                THEN \* file.filename raises AttributeError: except Exception
                     Done(q, ServerError, {"exception: Error processing image"})
                ELSE IF ValidateImageFile(NameOrUnknown(file.filename),
                                          file.content_type).outcome # "ok"
                     THEN Done(q, ValidateImageFile(NameOrUnknown(file.filename),
                                                    file.content_type), {})
                     ELSE [q EXCEPT !.pc = "reading",
                                    !.mime_type = ActualMime(file.content_type)]]
    /\ UNCHANGED <<agent_service, str_hash, collection, clock, last_saved,
                   point_ids, collections, proc, last_call>>

\* From the end of file.read() to `await self.agent.run(...)`.
ReadDone(r) ==
    /\ req[r].pc = "reading"
    /\ LET content == req[r].file.length
           q == [req[r] EXCEPT !.content = content,
                              !.log = IF req[r].user_comments \notin {None, ""}
                                      THEN {"info: Analyzing image (with user comments)"}
                                      ELSE {"info: Analyzing image"}]
           v == ValidateFileSize(content, max_file_size_mb)
       IN  req' = [req EXCEPT ![r] =
                IF v.outcome # "ok"
                THEN Done([req[r] EXCEPT !.content = content], v, {})
                ELSE IF ~BindsCall(agent_service)
                     THEN \* TypeError: unexpected keyword argument
                          Done([q EXCEPT !.gen_exc = "TypeError"], ServerError,
                               {"exception: Error processing image"})
                     ELSE [q EXCEPT
                             !.pc = "model",
                             !.gen_calls = @ + 1,
                             !.gen_args = [image_bytes |-> content,
                                           mime_type |-> q.mime_type,
                                           user_text |-> q.user_comments],
                             !.sent = Sent(agent_service, content, q.mime_type,
                                           q.user_comments),
                             !.log = @ \cup {"info: Starting artwork analysis"}]]
    /\ UNCHANGED <<agent_service, str_hash, collection, clock, last_saved,
                   point_ids, collections, proc, last_call>>

\* From the reply of the hosted model to the end of the handler: the rest of
\* analyze_image, then the storage step (save_critique is a plain call, the
\* handler does not yield in it) and the return.
ModelReturns(r, reply, db) ==
    /\ req[r].pc = "model"
    /\ clock < MaxClock
    /\ LET a == AnalyzeImage(reply)
           filename == NameOrUnknown(req[r].file.filename)
           critique == FromAnalysisResponse(a.value, clock)
           s == SaveCritique(collection, str_hash, critique, filename, db)
           q == [req[r] EXCEPT !.reply = reply,
                              !.result = a.value,
                              !.save_calls = @ + 1,
                              !.db = db,
                              !.save_exc = s.res.exc,
                              !.log = @ \cup {"debug: Attempting to store critique"}]
       IN  IF a.exc # None
           THEN \* ValueError from analyze_image: except Exception
                /\ req' = [req EXCEPT ![r] =
                       Done([req[r] EXCEPT !.reply = reply, !.gen_exc = a.exc],
                            ServerError,
                            {"exception: Error analyzing image",
                             "exception: Error processing image"})]
                /\ UNCHANGED <<collection, clock, last_saved, point_ids>>
           ELSE IF ~ValidAnalysisResponse(a.value)
           THEN \* AnalysisResponse(**result) raises ValidationError
                /\ req' = [req EXCEPT ![r] =
                       Done([req[r] EXCEPT !.reply = reply, !.result = a.value],
                            ServerError,
                            {"exception: Error processing image"})]
                /\ UNCHANGED <<collection, clock, last_saved, point_ids>>
           ELSE /\ clock' = clock + 1
                /\ collection' = s.coll
                /\ point_ids' = [point_ids EXCEPT ![filename] = @ \cup s.point_id]
                /\ last_saved' =
                       IF s.res.exc = None
                       THEN [last_saved EXCEPT ![filename] = Payload(critique, filename)]
                       ELSE last_saved
                /\ req' = [req EXCEPT ![r] =
                       IF s.res.exc = None
                       THEN Done(q, Return(a.value),
                                 {"info: Critique saved to Qdrant",
                                  "info: Critique stored in vector database"})
                       ELSE IF Catches(StorageExceptClause, s.res.exc)
                            THEN \* logged; control leaves the try statement
                                 \* and the function ends without a return
                                 Done(q, Return(PyNone),
                                      {"warning: Failed to store critique"})
                            ELSE Done(q, ServerError,
                                      {"exception: error saving critique",
                                       "exception: Error processing image"})]
    /\ UNCHANGED <<agent_service, str_hash, collections, proc, last_call>>

\* a call of a VectorService method or of the vector-db-health endpoint: its
\* input, what the database did, what the call returned or raised and from
\* which exception, what it logged and did, and the points before the call
Call(op, input, db, res, chained, log, embedded, upserts, before) ==
    [op |-> op, input |-> input, db |-> db, res |-> res, chained |-> chained,
     log |-> log, embedded |-> embedded, upserts |-> upserts, before |-> before]

NoCall == Call("none", PyNone, None, Returned(PyNone), None, {}, FALSE, 0, PyNone)

\* VectorService.save_critique called by another caller than the handler, with
\* an ArtCritique made at this moment from the caller's arguments.
SaveCritiqueCall(args, filename, db) ==
    /\ clock < MaxClock
    /\ LET critique == ArtCritique(args.summary, args.score, args.technical_errors,
                                   args.constructive_advice, clock)
           s == SaveCritique(collection, str_hash, critique, filename, db)
       IN  /\ collection' = s.coll
           /\ last_saved' =
                  IF s.res.exc = None
                  THEN [last_saved EXCEPT ![filename] = Payload(critique, filename)]
                  ELSE last_saved
           /\ point_ids' = [point_ids EXCEPT ![filename] = @ \cup s.point_id]
           /\ last_call' = Call("save_critique", critique, db, s.res, s.chained,
                                s.log, s.embedded, s.upserts, collection)
    /\ clock' = clock + 1
    /\ UNCHANGED <<agent_service, str_hash, req, collections, proc>>

\* The service process ends and a new one starts against the same database:
\* requests in flight are gone, hash() is another function.
Restart ==
    /\ str_hash' \in [StorableNames -> HashValues]
    /\ req' = [r \in Reqs |-> IdleReq]
    /\ UNCHANGED <<agent_service, collection, clock, last_saved, point_ids,
                   collections, proc, last_call>>

\* the texts and limits a caller of search_similar_critiques passes
QueryTexts == {Text("s1", 10), Text("error", 12)}
Limits == {1, 2}

\* VectorService.health_check called
HealthCheckCall(db) ==
    /\ last_call' = Call("health_check", PyNone, db, HealthCheck(db).res, None,
                         HealthCheck(db).log, FALSE, 0, collection)
    /\ UNCHANGED <<agent_service, str_hash, collection, clock, req, last_saved,
                   point_ids, collections, proc>>

\* VectorService.search_similar_critiques called
SearchCall(query_text, limit, db) ==
    /\ LET s == SearchSimilarCritiques(collection, query_text, limit, db)
       IN  last_call' = Call("search_similar_critiques",
                             [query_text |-> query_text, limit |-> limit], db,
                             s.res, s.chained, s.log, FALSE, 0, collection)
    /\ UNCHANGED <<agent_service, str_hash, collection, clock, req, last_saved,
                   point_ids, collections, proc>>

----------------------------------------------------------------------------
(* cli.py: main, _run_server, create_app; services/vector_service.py:        *)
(* VectorService.__init__, _ensure_collection_exists                        *)

COLLECTION_NAME == "art_portfolio"

VectorParams(size, distance) == [size |-> size, distance |-> distance]

\* the collection create_collection makes
ArtPortfolio ==
    [name |-> COLLECTION_NAME,
     params |-> VectorParams(EMBEDDING_SIZE, DISTANCE_METRIC)]

\* the service processes started against one database
Procs == {"p1", "p2"}

\* the SSL files an environment can name
KeyPath == "server.key"
CertPath == "server.crt"

\* the environment of a process: the Gemini API key and the SSL key and
\* certificate paths are set or not, the platform, and the files that exist
\* when the configuration is loaded (SERVER_SSL_CA is not set)
Envs ==
    [gemini_api_key : {None, "key"},
     ssl_key : {None, KeyPath},
     ssl_cert : {None, CertPath},
     platform : {"linux", "win32"},
     files : {{}, {KeyPath, CertPath}}]

\* the logger main() makes, and the loggers a caller can hand to set_logger
Loggers == {"logger", "other_logger"}

\* the AppConfig object: its sub-configurations and the private logger
AppConfig(env) ==
    [server |-> [host |-> "127.0.0.1", port |-> 8000, reload |-> FALSE],
     ssl |-> [cert |-> env.ssl_cert, key |-> env.ssl_key, ca |-> None],
     gemini |-> [api_key |-> env.gemini_api_key],
     upload |-> [max_file_size_mb |-> max_file_size_mb,
                 upload_dir |-> "./uploads"],
     _logger |-> None]

\* the configuration fields of an AppConfig object (all but the private logger)
ConfigFields(config) ==
    [server |-> config.server, ssl |-> config.ssl, gemini |-> config.gemini,
     upload |-> config.upload]

\* FilePath: a path that is set must point to a file
ValidFilePath(path, files) == path = None \/ path \in files

\* AppConfig(): gemini is a required field, and so is its api_key; the SSL
\* paths are validated as FilePath
LoadAppConfigKeyOptional(env) ==
    IF ~(ValidFilePath(env.ssl_key, env.files) /\ ValidFilePath(env.ssl_cert, env.files))
    THEN Raised("ValidationError", "ssl: Path does not point to a file")
    ELSE Returned(AppConfig(env))

LoadAppConfig(env) ==
    IF env.gemini_api_key = None
    THEN Raised("ValidationError", "gemini: Field required")
    ELSE IF ~(ValidFilePath(env.ssl_key, env.files)
              /\ ValidFilePath(env.ssl_cert, env.files))
         THEN Raised("ValidationError", "ssl: Path does not point to a file")
         ELSE Returned(AppConfig(env))

\* the sub-configurations that expose setup(logger), in the order of
\* AppConfig's fields
SetupHooks == <<"server", "ssl", "gemini", "upload">>

\* what upload_dir.mkdir(parents=True, exist_ok=True) does
MkdirOutcomes == {"ok", "PermissionError"}

\* one invocation of a setup hook
HookCall(sub, logger) == [sub |-> sub, logger |-> logger]

\* config.set_logger(logger): the object after the call, what the call
\* returns or raises, and the setup hooks it invoked, in order. The hook of
\* upload makes the upload directory, the last statement of the last hook.
SetLogger(config, logger, mkdir) ==
    IF logger = None
    THEN [config |-> config,
          res |-> Raised("RuntimeError", "Logger instance cannot be None"),
          hooks |-> <<>>]
    ELSE [config |-> [config EXCEPT !._logger = logger],
          res |-> IF mkdir = "ok" THEN Returned(PyNone) ELSE Raised(mkdir, None),
          hooks |-> [i \in DOMAIN SetupHooks |-> HookCall(SetupHooks[i], logger)]]

\* the logger property
Logger(config) ==
    IF config._logger = None
    THEN Raised("RuntimeError", "Logger not initialized: call config.set_logger(...) first")
    ELSE Returned(config._logger)

\* configure_ssl(config) on a platform, with the files that exist now: the
\* object after the call, what the call returns or raises, what it logged and
\* whether it ran the setup of the SSL configuration to its end
ConfigureSsl(config, platform, files) ==
    IF Logger(config).exc # None
    THEN [config |-> config, res |-> Logger(config), log |-> {}, ssl_setup |-> FALSE]
    ELSE IF platform # "linux"
    THEN [config |-> config, res |-> Returned(PyNone),
          log |-> {"info: Skipping SSL configuration"}, ssl_setup |-> FALSE]
    ELSE IF config.ssl.key # None /\ config.ssl.cert # None
    THEN IF config.ssl.key \in files /\ config.ssl.cert \in files
         THEN \* config.ssl.setup() lacks the argument logger
              [config |-> config,
               res |-> Raised("TypeError", "setup() missing 1 required positional argument: 'logger'"),
               log |-> {"info: SSL enabled with key and cert files"},
               ssl_setup |-> FALSE]
         ELSE [config |-> [config EXCEPT !.ssl.key = None, !.ssl.cert = None],
               res |-> Returned(PyNone),
               log |-> {"warning: SSL key or cert file not found, disabling SSL"},
               ssl_setup |-> FALSE]
    ELSE [config |-> config, res |-> Returned(PyNone),
          log |-> {"info: SSL disabled - no key/cert configured"},
          ssl_setup |-> FALSE]

\* main(): the exit code for an exception that leaves _run_server
MainExitCode(exc, exit_code) ==
    IF exc = "UserExceptionError" THEN exit_code
    ELSE IF exc = "KeyboardInterrupt" THEN 0 ELSE 1

\* a call of a method of the configuration object, or of configure_ssl: its
\* input, what it returned or raised, what it logged, the setup hooks it
\* invoked, whether the SSL setup ran, and the object before the call
ConfigCall(op, input, res, log, hooks, ssl_setup, before) ==
    [op |-> op, input |-> input, res |-> res, log |-> log, hooks |-> hooks,
     ssl_setup |-> ssl_setup, before |-> before]

NoConfigCall ==
    ConfigCall("none", PyNone, Returned(PyNone), {}, <<>>, FALSE, PyNone)

\* a process at the entry of main(): no configuration object yet; loaded is
\* the configuration fields as AppConfig() returned them, logger_set the
\* logger of the latest set_logger that returned, call the latest call on the
\* configuration, db what the database answered last while the router was
\* created
ProcStart ==
    [pc |-> "start", env |-> PyNone, config |-> PyNone, loaded |-> PyNone,
     logger_set |-> None, call |-> NoConfigCall,
     db |-> None, app_created |-> FALSE, served |-> FALSE,
     exc |-> None, cause |-> None, exit_code |-> -1]

\* the environment of the process that is up
ServingEnv ==
    [gemini_api_key |-> "key", ssl_key |-> None, ssl_cert |-> None,
     platform |-> "linux", files |-> {}]

\* create_app returned and uvicorn.run(app) is serving
ProcServing ==
    [ProcStart EXCEPT !.pc = "serving", !.env = ServingEnv,
                      !.config = [AppConfig(ServingEnv) EXCEPT !._logger = "logger"],
                      !.loaded = ConfigFields(AppConfig(ServingEnv)),
                      !.logger_set = "logger",
                      !.db = "ok",
                      !.app_created = TRUE]

\* main() returns code after exception exc, raised from cause, left _run_server
Exit(q, exc, cause, code) ==
    [q EXCEPT !.pc = "exited", !.exc = exc, !.cause = cause, !.exit_code = code]

\* main() from its entry to the call of configure_ssl: the configuration is
\* loaded and the logger set (a failure of either is raised as
\* UserExceptionError with exit code 1).
LoadConfig(p, env, mkdir) ==
    /\ proc[p].pc = "start"
    /\ LET q == [proc[p] EXCEPT !.env = env]
           c == LoadAppConfig(env)
           l == SetLogger(c.value, "logger", mkdir)
           k == [q EXCEPT !.config = l.config,
                          !.loaded = ConfigFields(c.value),
                          !.call = ConfigCall("set_logger",
                                              [logger |-> "logger", mkdir |-> mkdir],
                                              l.res, {}, l.hooks, FALSE, c.value)]
       IN  proc' = [proc EXCEPT ![p] =
               IF c.exc # None
               THEN Exit(q, "UserExceptionError", c.exc,
                         MainExitCode("UserExceptionError", 1))
               ELSE IF l.res.exc # None
               THEN Exit(k, "UserExceptionError", l.res.exc,
                         MainExitCode("UserExceptionError", 1))
               ELSE [k EXCEPT !.pc = "configure_ssl", !.logger_set = "logger"]]
    /\ UNCHANGED <<agent_service, str_hash, collection, clock, req, last_saved,
                   point_ids, collections, last_call>>

\* configure_ssl(config), outside the try statement of _run_server: an
\* exception leaves main() through `except Exception` with code 1; else
\* create_app constructs AgentService and VectorService, up to the
\* get_collections request of _ensure_collection_exists.
ConfigureSslDone(p, files) ==
    /\ proc[p].pc = "configure_ssl"
    /\ LET s == ConfigureSsl(proc[p].config, proc[p].env.platform, files)
           q == [proc[p] EXCEPT
                    !.config = s.config,
                    !.call = ConfigCall("configure_ssl",
                                        [platform |-> proc[p].env.platform,
                                         files |-> files],
                                        s.res, s.log, <<>>, s.ssl_setup,
                                        proc[p].config)]
       IN  proc' = [proc EXCEPT ![p] =
               IF s.res.exc # None
               THEN Exit(q, s.res.exc, None, MainExitCode(s.res.exc, -1))
               ELSE [q EXCEPT !.pc = "checking"]]
    /\ UNCHANGED <<agent_service, str_hash, collection, clock, req, last_saved,
                   point_ids, collections, last_call>>

\* get_collections answers: the collection is there (the router is returned
\* and the app served), or it is not (create_collection is requested), or the
\* request failed: RuntimeError leaves VectorService.__init__ and main()
\* returns 1.
EnsureCollectionChecked(p, db) ==
    /\ proc[p].pc = "checking"
    /\ proc' = [proc EXCEPT ![p] =
           IF db # "ok"
           THEN Exit([@ EXCEPT !.db = db], "RuntimeError", db,
                     MainExitCode("RuntimeError", -1))
           ELSE IF COLLECTION_NAME \in {c.name : c \in collections}
                THEN [@ EXCEPT !.pc = "serving", !.db = db, !.app_created = TRUE]
                ELSE [@ EXCEPT !.pc = "creating", !.db = db]]
    /\ UNCHANGED <<agent_service, str_hash, collection, clock, req, last_saved,
                   point_ids, collections, last_call>>

\* create_collection answers: the database makes the collection, or refuses
\* because a collection of that name exists (UnexpectedResponse), or the
\* request failed.
EnsureCollectionCreated(p, db) ==
    /\ proc[p].pc = "creating"
    /\ IF db # "ok"
       THEN /\ proc' = [proc EXCEPT ![p] =
                   Exit([@ EXCEPT !.db = db], "RuntimeError", db,
                        MainExitCode("RuntimeError", -1))]
            /\ UNCHANGED collections
       ELSE IF COLLECTION_NAME \in {c.name : c \in collections}
            THEN /\ proc' = [proc EXCEPT ![p] =
                        Exit(@, "RuntimeError", "collection already exists",
                             MainExitCode("RuntimeError", -1))]
                 /\ UNCHANGED collections
            ELSE /\ collections' = collections \cup {ArtPortfolio}
                 /\ proc' = [proc EXCEPT ![p] =
                        [@ EXCEPT !.pc = "serving", !.app_created = TRUE]]
    /\ UNCHANGED <<agent_service, str_hash, collection, clock, req, last_saved,
                   point_ids, last_call>>

\* the served app answers a request
Serve(p) ==
    /\ proc[p].pc = "serving"
    /\ ~proc[p].served
    /\ proc' = [proc EXCEPT ![p] = [@ EXCEPT !.served = TRUE]]
    /\ UNCHANGED <<agent_service, str_hash, collection, clock, req, last_saved,
                   point_ids, collections, last_call>>

\* the process has ended, or is stopped, and main() is started again
Respawn(p) ==
    /\ proc[p].pc \in {"serving", "exited"}
    /\ proc' = [proc EXCEPT ![p] = ProcStart]
    /\ UNCHANGED <<agent_service, str_hash, collection, clock, req, last_saved,
                   point_ids, collections, last_call>>

\* A service process is up: its router and services are constructed and the
\* collection exists in the database.
Init ==
    /\ agent_service \in AgentKinds
    /\ str_hash \in [StorableNames -> HashValues]
    /\ collection = [id \in PointIds |-> PyNone]
    /\ clock = 0
    /\ req = [r \in Reqs |-> IdleReq]
    /\ last_saved = [f \in StorableNames |-> PyNone]
    /\ point_ids = [f \in StorableNames |-> {}]
    /\ collections = {ArtPortfolio}
    /\ proc = [p \in Procs |-> IF p = "p1" THEN ProcServing ELSE ProcStart]
    /\ last_call = NoCall

\* One service process handling critique requests.
Next ==
    \/ \E r \in Reqs, file \in Files, user_comments \in UserComments :
          Validate(r, file, user_comments)
    \/ \E r \in Reqs : ReadDone(r)
    \/ \E r \in Reqs, reply \in ModelReplies, db \in DbOutcomes :
          ModelReturns(r, reply, db)

Spec == Init /\ [][Next]_vars

\* The storage client used by successive service processes on one database.
NextStore ==
    \/ \E args \in ArtCritiqueArgs, filename \in StorableNames, db \in DbOutcomes :
          SaveCritiqueCall(args, filename, db)
    \/ \E db \in DbOutcomes : HealthCheckCall(db)
    \/ \E query_text \in QueryTexts, limit \in Limits, db \in DbOutcomes :
          SearchCall(query_text, limit, db)
    \/ Restart

SpecStore == Init /\ [][NextStore]_vars

----------------------------------------------------------------------------
(* The event loop of one service process: requests in flight together *)

\* the request slots of the event loop
Slots == {"r1", "r2"}

\* what the requests in flight together upload, and what the model answers
ServerFiles == {PyNone, UploadFile(NameLowerPng, None, 1)}
ServerReplies == {[kind |-> "error"], [kind |-> "data", data |-> GoodLow]}

\* The event loop runs one handler at a time and takes up another one only
\* where the running one awaits.  vector_service.save_critique(...) and
\* vector_service.health_check() are plain calls of the synchronous
\* QdrantClient: a handler inside one of them keeps the event loop.
LoopFree == \A r \in DOMAIN req : req[r].pc # "storing"

\* 'healthy' if is_healthy else 'unavailable'
StatusTextAlwaysHealthy(is_healthy) == "healthy"
StatusText(is_healthy) == IF is_healthy THEN "healthy" ELSE "unavailable"

\* GET /analysis/vector-db-health: input is what health_check returned
VectorDbHealth(db) ==
    /\ LET h == HealthCheck(db)
       IN  last_call' =
             Call("vector_db_health", h.res, db,
                  IF h.res.exc # None
                  THEN Raised(h.res.exc, None)
                  ELSE Returned([status |-> StatusText(h.res.value),
                                 service |-> "ArtMentor AI - Vector Database",
                                 database |-> "Qdrant"]),
                  None, h.log, FALSE, 0, collection)
    /\ UNCHANGED <<agent_service, str_hash, collection, clock, req, last_saved,
                   point_ids, collections, proc>>

\* From the reply of the hosted model to the upsert request save_critique
\* sends: the first part of ModelReturns.
ModelReplied(r, reply) ==
    /\ req[r].pc = "model"
    /\ clock < MaxClock
    /\ LET a == AnalyzeImage(reply)
       IN  IF a.exc # None
           THEN /\ req' = [req EXCEPT ![r] =
                       Done([req[r] EXCEPT !.reply = reply, !.gen_exc = a.exc],
                            ServerError,
                            {"exception: Error analyzing image",
                             "exception: Error processing image"})]
                /\ UNCHANGED clock
           ELSE IF ~ValidAnalysisResponse(a.value)
           THEN /\ req' = [req EXCEPT ![r] =
                       Done([req[r] EXCEPT !.reply = reply, !.result = a.value],
                            ServerError,
                            {"exception: Error processing image"})]
                /\ UNCHANGED clock
           ELSE /\ clock' = clock + 1
                /\ req' = [req EXCEPT ![r] =
                       [@ EXCEPT !.pc = "storing",
                                 !.reply = reply,
                                 !.result = a.value,
                                 !.critique = FromAnalysisResponse(a.value, clock),
                                 !.save_calls = @ + 1,
                                 !.log = @ \cup {"debug: Attempting to store critique"}]]
    /\ UNCHANGED <<agent_service, str_hash, collection, last_saved, point_ids,
                   collections, proc, last_call>>

\* From the database's answer to the upsert to the end of the handler: the
\* second part of ModelReturns.
StorageReturned(r, db) ==
    /\ req[r].pc = "storing"
    /\ LET filename == NameOrUnknown(req[r].file.filename)
           critique == req[r].critique
           s == SaveCritique(collection, str_hash, critique, filename, db)
           q == [req[r] EXCEPT !.db = db, !.save_exc = s.res.exc]
       IN  /\ collection' = s.coll
           /\ point_ids' = [point_ids EXCEPT ![filename] = @ \cup s.point_id]
           /\ last_saved' =
                  IF s.res.exc = None
                  THEN [last_saved EXCEPT ![filename] = Payload(critique, filename)]
                  ELSE last_saved
           /\ req' = [req EXCEPT ![r] =
                  IF s.res.exc = None
                  THEN Done(q, Return(q.result),
                            {"info: Critique saved to Qdrant",
                             "info: Critique stored in vector database"})
                  ELSE IF Catches(StorageExceptClause, s.res.exc)
                       THEN Done(q, Return(PyNone),
                                 {"warning: Failed to store critique"})
                       ELSE Done(q, ServerError,
                                 {"exception: error saving critique",
                                  "exception: Error processing image"})]
    /\ UNCHANGED <<agent_service, str_hash, clock, collections, proc, last_call>>

\* the steps of the handler in slot r that the event loop can take up
Accept(r) ==
    /\ LoopFree
    /\ \E file \in ServerFiles, user_comments \in UserComments :
          Validate(r, file, user_comments)

Read(r) == LoopFree /\ ReadDone(r)

Reply(r) == LoopFree /\ \E reply \in ServerReplies : ModelReplied(r, reply)

HandlerStep(r) == Accept(r) \/ Read(r) \/ Reply(r)

HealthRequest == LoopFree /\ \E db \in DbOutcomes : VectorDbHealth(db)

\* One service process with its requests in flight.
InitServer ==
    /\ agent_service \in AgentKinds
    /\ str_hash = [f \in StorableNames |-> Max(HashValues)]
    /\ collection = [id \in PointIds |-> PyNone]
    /\ clock = 0
    /\ req = [r \in Slots |-> IdleReq]
    /\ last_saved = [f \in StorableNames |-> PyNone]
    /\ point_ids = [f \in StorableNames |-> {}]
    /\ collections = {ArtPortfolio}
    /\ proc = [p \in Procs |-> IF p = "p1" THEN ProcServing ELSE ProcStart]
    /\ last_call = NoCall

NextServer ==
    \/ \E r \in Slots : Accept(r)
    \/ \E r \in Slots : Read(r)
    \/ \E r \in Slots : Reply(r)
    \/ \E r \in Slots, db \in DbOutcomes : StorageReturned(r, db)
    \/ HealthRequest

SpecServer == InitServer /\ [][NextServer]_vars

\* Service processes starting against one database that has no collection yet.
InitStartup ==
    /\ agent_service = "AgentService"
    /\ str_hash = [f \in StorableNames |-> Max(HashValues)]
    /\ collection = [id \in PointIds |-> PyNone]
    /\ clock = 0
    /\ req = [r \in Reqs |-> IdleReq]
    /\ last_saved = [f \in StorableNames |-> PyNone]
    /\ point_ids = [f \in StorableNames |-> {}]
    /\ collections = {}
    /\ proc = [p \in Procs |-> ProcStart]
    /\ last_call = NoCall

NextStartup ==
    \/ \E p \in Procs, env \in Envs, mkdir \in MkdirOutcomes :
          LoadConfig(p, env, mkdir)
    \/ \E p \in Procs, files \in SUBSET {KeyPath, CertPath} :
          ConfigureSslDone(p, files)
    \/ \E p \in Procs, db \in DbOutcomes : EnsureCollectionChecked(p, db)
    \/ \E p \in Procs, db \in DbOutcomes : EnsureCollectionCreated(p, db)
    \/ \E p \in Procs : Serve(p)
    \/ \E p \in Procs : Respawn(p)

SpecStartup == InitStartup /\ [][NextStartup]_vars

----------------------------------------------------------------------------
(* The configuration object called directly *)

\* the process whose configuration object is called
ConfigOwners == {"p1"}

\* config = AppConfig() in an environment
AppConfigCall(p, env) ==
    /\ proc[p].pc \in {"start", "constructed"}
    /\ LET c == LoadAppConfig(env)
       IN  proc' = [proc EXCEPT ![p] =
               IF c.exc # None
               THEN [ProcStart EXCEPT
                       !.env = env,
                       !.call = ConfigCall("AppConfig", env, c, {}, <<>>, FALSE,
                                           PyNone)]
               ELSE [ProcStart EXCEPT
                       !.pc = "constructed", !.env = env, !.config = c.value,
                       !.loaded = ConfigFields(c.value),
                       !.call = ConfigCall("AppConfig", env, Returned(PyNone),
                                           {}, <<>>, FALSE, PyNone)]]
    /\ UNCHANGED <<agent_service, str_hash, collection, clock, req, last_saved,
                   point_ids, collections, last_call>>

\* config.set_logger(logger)
SetLoggerCall(p, logger, mkdir) ==
    /\ proc[p].pc = "constructed"
    /\ LET l == SetLogger(proc[p].config, logger, mkdir)
       IN  proc' = [proc EXCEPT ![p] =
               [@ EXCEPT !.config = l.config,
                         !.logger_set = IF l.res.exc = None THEN logger ELSE @,
                         !.call = ConfigCall("set_logger",
                                             [logger |-> logger, mkdir |-> mkdir],
                                             l.res, {}, l.hooks, FALSE,
                                             proc[p].config)]]
    /\ UNCHANGED <<agent_service, str_hash, collection, clock, req, last_saved,
                   point_ids, collections, last_call>>

\* config.logger
LoggerCall(p) ==
    /\ proc[p].pc = "constructed"
    /\ proc' = [proc EXCEPT ![p] =
           [@ EXCEPT !.call = ConfigCall("logger", PyNone, Logger(proc[p].config),
                                         {}, <<>>, FALSE, proc[p].config)]]
    /\ UNCHANGED <<agent_service, str_hash, collection, clock, req, last_saved,
                   point_ids, collections, last_call>>

\* configure_ssl(config)
ConfigureSslCall(p, files) ==
    /\ proc[p].pc = "constructed"
    /\ LET s == ConfigureSsl(proc[p].config, proc[p].env.platform, files)
       IN  proc' = [proc EXCEPT ![p] =
               [@ EXCEPT !.config = s.config,
                         !.call = ConfigCall("configure_ssl",
                                             [platform |-> proc[p].env.platform,
                                              files |-> files],
                                             s.res, s.log, <<>>, s.ssl_setup,
                                             proc[p].config)]]
    /\ UNCHANGED <<agent_service, str_hash, collection, clock, req, last_saved,
                   point_ids, collections, last_call>>

NextConfig ==
    \/ \E p \in ConfigOwners, env \in Envs : AppConfigCall(p, env)
    \/ \E p \in ConfigOwners, logger \in Loggers \cup {None},
          mkdir \in MkdirOutcomes : SetLoggerCall(p, logger, mkdir)
    \/ \E p \in ConfigOwners : LoggerCall(p)
    \/ \E p \in ConfigOwners, files \in SUBSET {KeyPath, CertPath} :
          ConfigureSslCall(p, files)

SpecConfig == InitStartup /\ [][NextConfig]_vars

----------------------------------------------------------------------------
(* Properties *)

\* the handler got past both validation steps (the log line of lines 180-186)
Analyzing(q) ==
    \E l \in q.log :
        l \in {"info: Analyzing image", "info: Analyzing image (with user comments)"}

\* the name ends, whatever the case of its letters, in extension e after a
\* stem that is not empty
EndsWithCI(name, e) ==
    /\ Len(name) > Len(e)
    /\ \A i \in 1..Len(e) : LowerChar(name[Len(name) - Len(e) + i]) = e[i]

HasAllowedExtension(name) == \E e \in allowed_extensions : EndsWithCI(name, e)

\* the declared content type, image/jpeg when there is none
Declared(content_type) == IF content_type = None THEN "image/jpeg" ELSE content_type

\* the model's data keeps the bounds of a structured critique
InBounds(d) ==
    /\ d.score \in 1..10
    /\ Len(d.technical_errors) \in 0..10
    /\ d.summary.len \in 10..500
    /\ d.constructive_advice.len \in 20..500

ConnectivityErrors == {"ConnectionError", "TimeoutError", "OSError"}

C4_ValidUploadReturnsCritique ==
    \A r \in Reqs :
        Analyzing(req[r])
        => /\ req[r].gen_calls = 1
           /\ req[r].gen_args =
                 [image_bytes |-> req[r].file.length,
                  mime_type |-> Declared(req[r].file.content_type),
                  user_text |-> req[r].user_comments]
           /\ (req[r].pc = "done" /\ req[r].reply # PyNone
                  /\ req[r].reply.kind = "data" /\ InBounds(req[r].reply.data)
                  /\ req[r].db = "ok")
              => /\ req[r].response.outcome = "return"
                 /\ req[r].response.status_code = 200
                 /\ req[r].response.body = req[r].reply.data

C6_SizeCheck ==
    \A r \in Reqs :
        req[r].content # -1
        => /\ req[r].content = 0
              => /\ req[r].response.status_code = 400
                 /\ req[r].response.detail = "File is empty"
           /\ req[r].content > 10 * 1024 * 1024
              => /\ req[r].response.status_code = 413
                 /\ req[r].response.detail = "File too large"
           /\ req[r].content \in 1..(10 * 1024 * 1024)
              => /\ Analyzing(req[r])
                 /\ req[r].response.status_code \notin {400, 413}

C6_Witness ==
    \E r \in Reqs :
        /\ req[r].content = 10 * 1024 * 1024
        /\ Analyzing(req[r])
        /\ req[r].response.status_code \notin {400, 413}

\* C7: an upload whose file name does not end, whatever the case of its
\* letters, in an allowed extension (a name without extension and an absent
\* name included) is rejected with a 400 that names the allowed extensions; a
\* name that does is not rejected for its extension.
C7_ExtensionCheck ==
    \A r \in Reqs :
        (req[r].pc # "idle" /\ req[r].file # PyNone)
        => /\ ~HasAllowedExtension(req[r].file.filename)
              => /\ req[r].pc = "done"
                 /\ req[r].response.outcome = "http_exception"
                 /\ req[r].response.status_code = 400
                 /\ req[r].response.detail = "Extension not allowed"
                 /\ req[r].response.names = allowed_extensions
           /\ HasAllowedExtension(req[r].file.filename)
              => req[r].response.detail # "Extension not allowed"

C7_Witness ==
    \E r \in Reqs :
        /\ req[r].file # PyNone
        /\ req[r].file.filename = NoFilename
        /\ req[r].response.status_code = 400
        /\ req[r].response.detail = "Extension not allowed"
        /\ req[r].response.names = allowed_extensions

\* C8: for an upload with an allowed extension, the declared content type
\* (image/jpeg when there is none) is checked against the allowed MIME types:
\* a type that is not allowed is rejected with a 400 naming the allowed types,
\* and the type the handler passes on to the generator is the declared type.
C8_MimeCheck ==
    \A r \in Reqs :
        (req[r].pc # "idle" /\ req[r].file # PyNone
            /\ HasAllowedExtension(req[r].file.filename))
        => /\ Declared(req[r].file.content_type) \notin allowed_mime_types
              => /\ req[r].pc = "done"
                 /\ req[r].response.outcome = "http_exception"
                 /\ req[r].response.status_code = 400
                 /\ req[r].response.detail = "MIME type not allowed"
                 /\ req[r].response.names = allowed_mime_types
           /\ Declared(req[r].file.content_type) \in allowed_mime_types
              => /\ req[r].response.detail # "MIME type not allowed"
                 /\ req[r].mime_type = Declared(req[r].file.content_type)
                 /\ req[r].gen_args # PyNone
                    => req[r].gen_args.mime_type = Declared(req[r].file.content_type)

C8_Witness ==
    \E r \in Reqs :
        /\ req[r].file # PyNone
        /\ req[r].file.content_type = None
        /\ req[r].pc = "reading"
        /\ req[r].mime_type = "image/jpeg"

\* C9: validation fails fast in the order extension, MIME type, size: a request
\* that breaks several checks is answered with the error of the first one it
\* breaks, the content is not read before the first two passed, and a request
\* rejected by a check calls neither the generator nor save_critique.
C9_FailFastOrder ==
    \A r \in Reqs :
        (req[r].pc # "idle" /\ req[r].file # PyNone)
        => /\ ~HasAllowedExtension(req[r].file.filename)
              => /\ req[r].response.detail = "Extension not allowed"
                 /\ req[r].content = -1
           /\ (HasAllowedExtension(req[r].file.filename)
                 /\ Declared(req[r].file.content_type) \notin allowed_mime_types)
              => /\ req[r].response.detail = "MIME type not allowed"
                 /\ req[r].content = -1
           /\ req[r].response.detail \in {"File too large", "File is empty"}
              => /\ HasAllowedExtension(req[r].file.filename)
                 /\ Declared(req[r].file.content_type) \in allowed_mime_types
           /\ req[r].response.status_code \in {400, 413}
              => /\ req[r].gen_calls = 0
                 /\ req[r].sent = PyNone
                 /\ req[r].save_calls = 0
                 /\ ~Analyzing(req[r])

C9_Witness ==
    \E r \in Reqs :
        /\ req[r].file # PyNone
        /\ req[r].file.filename = NameTxt
        /\ req[r].file.content_type = "text/plain"
        /\ req[r].file.length = 0
        /\ req[r].response.status_code = 400
        /\ req[r].response.detail = "Extension not allowed"
        /\ req[r].gen_calls = 0

\* C10: after any sequence of successful save_critique calls the collection
\* holds exactly one record per file name saved, and the payload of that record
\* is the one of the latest save under that name.
C10_OneRecordPerFilename ==
    /\ \A f \in StorableNames :
          last_saved[f] # PyNone
          => /\ \E id \in PointIds :
                   /\ collection[id] # PyNone
                   /\ collection[id].payload = last_saved[f]
             /\ Cardinality({id \in PointIds :
                               /\ collection[id] # PyNone
                               /\ collection[id].payload.filename = f}) = 1
    /\ Cardinality({id \in PointIds : collection[id] # PyNone})
          = Cardinality({f \in StorableNames : last_saved[f] # PyNone})

\* C11: the point id save_critique makes is a function of the file name alone:
\* every save under one file name makes the same id, whatever the critique,
\* the time of the call and the service process (or restart) that saves.
C11_PointIdDeterministic ==
    \A f \in StorableNames : Cardinality(point_ids[f]) <= 1

\* technical_errors is no list of str
InvalidTechnicalErrors(critique) ==
    \/ critique.technical_errors.py # "list"
    \/ \E i \in DOMAIN critique.technical_errors.items :
          critique.technical_errors.items[i].py # "str"

C13_EnsureCollectionIdempotent ==
    /\ Cardinality({c \in collections : c.name = "art_portfolio"}) <= 1
    /\ \A c \in collections :
          c.name = "art_portfolio" => c.params = [size |-> 384, distance |-> "Cosine"]
    /\ \A p \in Procs :
          /\ proc[p].pc = "serving"
             => \E c \in collections : c.name = "art_portfolio"
          /\ proc[p].cause # "collection already exists"

C15_HealthCheckNeverRaises ==
    last_call.op = "health_check"
    => /\ last_call.db \in {"ResponseHandlingException", "UnexpectedResponse"}
          => /\ last_call.res.exc = None
             /\ last_call.res.value = FALSE
       /\ last_call.db = "ok"
          => /\ last_call.res.exc = None
             /\ last_call.res.value = TRUE
       /\ collection = last_call.before
       /\ collections = {ArtPortfolio}

C15_Witness ==
    /\ last_call.op = "health_check"
    /\ last_call.db = "UnexpectedResponse"
    /\ last_call.res.exc = None
    /\ last_call.res.value = FALSE
    /\ \E id \in PointIds : collection[id] # PyNone

\* C16: when a required configuration value (the model API key) is missing,
\* startup ends with a configuration error and an exit code that is not 0
\* before the application is created, and no request is served.
C16_MissingConfigAbortsStartup ==
    \A p \in Procs :
        (proc[p].env # PyNone /\ proc[p].env.gemini_api_key = None)
        => /\ proc[p].pc = "exited"
           /\ proc[p].exc = "UserExceptionError"
           /\ proc[p].cause = "ValidationError"
           /\ proc[p].exit_code > 0
           /\ ~proc[p].app_created
           /\ ~proc[p].served

C16_Witness ==
    \E p \in Procs :
        /\ proc[p].env # PyNone
        /\ proc[p].env.gemini_api_key = None
        /\ proc[p].pc = "exited"
        /\ proc[p].exit_code = 1
        /\ ~proc[p].app_created

\* the entries of a result list are in descending order of similarity
Descending(results) ==
    \A i, j \in DOMAIN results :
        i < j => results[i].similarity_score >= results[j].similarity_score

\* C17: search_similar_critiques, for a query text and a limit against a
\* collection that can be reached, returns at most limit results in
\* descending order of similarity, each with its similarity score and the
\* stored payload fields, and leaves the collection unchanged.
C17_SearchReturnsNearest ==
    (last_call.op = "search_similar_critiques" /\ last_call.db = "ok")
    => /\ last_call.res.exc = None
       /\ Len(last_call.res.value) <= last_call.input.limit
       /\ Descending(last_call.res.value)
       /\ \A i \in DOMAIN last_call.res.value :
             \E id \in PointIds :
                /\ collection[id] # PyNone
                /\ FormatResult([score |-> last_call.res.value[i].similarity_score,
                                 payload |-> collection[id].payload])
                      = last_call.res.value[i]
       /\ collection = last_call.before

\* C18: analyze_image takes an optional user comment and sends it to the
\* hosted model with the prompt and the image exactly when there is one; with
\* no comment only the prompt and the image are sent.
C18_CommentSentWhenPresent ==
    \A r \in Reqs :
       /\ req[r].gen_exc # "TypeError"
       /\ req[r].sent # PyNone
          => /\ req[r].sent.image =
                   [data |-> req[r].content, media_type |-> req[r].mime_type]
             /\ req[r].sent.comment =
                   IF req[r].user_comments \in {None, ""}
                   THEN None ELSE req[r].user_comments

C22_MissingFileIsClientError ==
    \A r \in Reqs :
        (req[r].pc = "done" /\ req[r].file = PyNone)
        => /\ req[r].response.outcome = "http_exception"
           /\ req[r].response.status_code \in 400..499
           /\ req[r].gen_calls = 0
           /\ req[r].save_calls = 0
           /\ "exception: Error processing image" \notin req[r].log

\* C23: a vector database that cannot be reached while the analysis router and
\* its storage client are created does not break the API: the service still
\* starts (create_app returns and the app is served).
C23_StartsWithoutDatabase ==
    \A p \in Procs :
        proc[p].db \notin {None, "ok"}
        => /\ proc[p].pc = "serving"
           /\ proc[p].app_created

\* C24: the configuration is immutable once loaded: after AppConfig() has
\* returned, no startup step (configure_ssl included) and no request changes a
\* field of AppConfig or of its server, ssl, gemini and upload
\* sub-configurations.
C24_ConfigImmutable ==
    \A p \in Procs :
        proc[p].config # PyNone
        => ConfigFields(proc[p].config) = proc[p].loaded

\* both SSL paths are set
SslConfigured(config) == config.ssl.key # None /\ config.ssl.cert # None

\* C25: configure_ssl, called with the logger set, always returns normally:
\* on Linux, with key and certificate configured and both files there, it
\* enables SSL by running the setup of the SSL configuration; with both
\* configured and a file missing it logs a warning and clears key and cert;
\* with key or certificate not configured it leaves SSL disabled.
C25_ConfigureSslReturns ==
    \A p \in Procs :
        (proc[p].call.op = "configure_ssl" /\ proc[p].call.before._logger # None)
        => LET call == proc[p].call
               before == call.before
               exist == {before.ssl.key, before.ssl.cert} \subseteq call.input.files
           IN  /\ call.res.exc = None
               /\ (call.input.platform = "linux" /\ SslConfigured(before) /\ exist)
                  => /\ call.ssl_setup
                     /\ "info: SSL enabled with key and cert files" \in call.log
                     /\ proc[p].config.ssl = before.ssl
               /\ (call.input.platform = "linux" /\ SslConfigured(before) /\ ~exist)
                  => /\ "warning: SSL key or cert file not found, disabling SSL"
                            \in call.log
                     /\ proc[p].config.ssl.key = None
                     /\ proc[p].config.ssl.cert = None
                     /\ ~call.ssl_setup
               /\ (call.input.platform = "linux" /\ ~SslConfigured(before))
                  => /\ proc[p].config.ssl = before.ssl
                     /\ ~call.ssl_setup

\* C26: the logger of the configuration follows a two-state protocol: a read
\* before a set_logger that succeeded raises; set_logger with no logger
\* raises and leaves the logger as it was (unset); after set_logger with a
\* logger every read returns that logger, and that set_logger has invoked the
\* setup hook of each of server, ssl, gemini and upload exactly once, with
\* that logger.
C26_LoggerProtocol ==
    \A p \in Procs :
        LET call == proc[p].call
        IN  /\ (call.op = "logger" /\ proc[p].logger_set = None)
               => call.res.exc = "RuntimeError"
            /\ (call.op = "set_logger" /\ call.input.logger = None)
               => /\ call.res.exc = "RuntimeError"
                  /\ proc[p].config._logger = call.before._logger
            /\ (call.op = "logger" /\ proc[p].logger_set # None)
               => call.res = Returned(proc[p].logger_set)
            /\ (call.op = "set_logger" /\ call.res.exc = None)
               => \A sub \in {"server", "ssl", "gemini", "upload"} :
                     Cardinality({i \in DOMAIN call.hooks :
                                     call.hooks[i] = HookCall(sub, call.input.logger)}) = 1
                     /\ Cardinality({i \in DOMAIN call.hooks :
                                        call.hooks[i].sub = sub}) = 1

====
